---- MODULE Spec2Model ----
(***************************************************************************)
(* Model of src/server.js: the path sandbox (getSafePath), the file        *)
(* operations built on it and the in-memory share-link registry.           *)
(*                                                                         *)
(* Strings are sequences of one-character strings, so that the string      *)
(* operations of the source (startsWith, split on the separator, decoding  *)
(* of %XX escapes) are computed and not assumed.                           *)
(***************************************************************************)
EXTENDS Integers, Sequences, FiniteSets, TLC

VARIABLES
    fs,          \* the file tree: absolute path -> [dir, data]
    shareLinks,  \* server.js:47, share id -> [path, created_at]
    issued,      \* history of uuidv4() results: issued[i] = creation time of id i
    now,         \* the wall clock (Date.now()), in milliseconds
    reqs,        \* the requests in flight, one per client connection
    probe        \* argument and result of a direct call of getSafePath

vars == <<fs, shareLinks, issued, now, reqs, probe>>

----------------------------------------------------------------------------
(* Bounds of the model *)

MaxLen == 5        \* longest path suffix handed to getSafePath directly
MaxHours == 1      \* the clock advances by at most this many expiry windows
MaxMs == 1         \* ... plus at most this many single milliseconds
MaxShares == 2     \* share ids issued in one run
MaxEntries == 3    \* entries below the storage root, in the runs on files
MaxShareEntries == 2   \* the same, in the runs on share links
MaxRaceEntries == 2    \* the same, in the runs with two clients

----------------------------------------------------------------------------
(* Strings *)

Sep == "/"

\* String.prototype.startsWith
StartsWith(s, prefix) ==
    /\ Len(prefix) <= Len(s)
    /\ \A i \in 1..Len(prefix) : s[i] = prefix[i]

\* s.split('/')
RECURSIVE Split(_)
Split(s) ==
    IF \A i \in 1..Len(s) : s[i] # Sep
    THEN <<s>>
    ELSE LET k == CHOOSE i \in 1..Len(s) :
                      s[i] = Sep /\ \A j \in 1..(i - 1) : s[j] # Sep
         IN  <<SubSeq(s, 1, k - 1)>> \o Split(SubSeq(s, k + 1, Len(s)))

\* segments.join('/')
RECURSIVE JoinSegs(_)
JoinSegs(segs) ==
    IF segs = <<>> THEN <<>>
    ELSE IF Len(segs) = 1 THEN segs[1]
    ELSE segs[1] \o <<Sep>> \o JoinSegs(Tail(segs))

----------------------------------------------------------------------------
(* decodeURIComponent, as getSafePath calls it (server.js:59) *)

HexVal(c) ==
    CASE c = "0" -> 0  [] c = "1" -> 1  [] c = "2" -> 2  [] c = "3" -> 3
      [] c = "4" -> 4  [] c = "5" -> 5  [] c = "6" -> 6  [] c = "7" -> 7
      [] c = "8" -> 8  [] c = "9" -> 9
      [] c \in {"a", "A"} -> 10  [] c \in {"b", "B"} -> 11
      [] c \in {"c", "C"} -> 12  [] c \in {"d", "D"} -> 13
      [] c \in {"e", "E"} -> 14  [] c \in {"f", "F"} -> 15
      [] OTHER -> -1

\* The printable ASCII characters, codes 32 .. 126 (code 96 is spelled out).
Ascii ==
    << " ", "!", "\"", "#", "$", "%", "&", "'", "(", ")", "*", "+", ",", "-",
       ".", "/", "0", "1", "2", "3", "4", "5", "6", "7", "8", "9", ":", ";",
       "<", "=", ">", "?", "@", "A", "B", "C", "D", "E", "F", "G", "H", "I",
       "J", "K", "L", "M", "N", "O", "P", "Q", "R", "S", "T", "U", "V", "W",
       "X", "Y", "Z", "[", "\\", "]", "^", "_", "GRAVE", "a", "b", "c", "d", "e",
       "f", "g", "h", "i", "j", "k", "l", "m", "n", "o", "p", "q", "r", "s",
       "t", "u", "v", "w", "x", "y", "z", "{", "|", "}", "~" >>

\* The character of a code below 128; control characters are one token.
Chr(b) == IF b >= 32 /\ b <= 126 THEN Ascii[b - 31] ELSE "CTL"

\* The byte of the escape %XX at position i of s, or -1 when there is none.
EscapeAt(s, i) ==
    IF i + 2 <= Len(s) /\ s[i] = "%" /\ HexVal(s[i + 1]) >= 0 /\ HexVal(s[i + 2]) >= 0
    THEN 16 * HexVal(s[i + 1]) + HexVal(s[i + 2])
    ELSE -1

\* How many continuation bytes a UTF-8 lead byte announces; -1: no lead byte.
Continuations(b) ==
    IF b >= 194 /\ b <= 223 THEN 1
    ELSE IF b >= 224 /\ b <= 239 THEN 2
    ELSE IF b >= 240 /\ b <= 244 THEN 3
    ELSE -1

\* decodeURIComponent(s) from position i on: [ok, val]. ok = FALSE is the
\* URIError thrown for a malformed escape or a malformed UTF-8 sequence. A
\* well-formed multi-byte sequence decodes to one non-ASCII character, "U+".
RECURSIVE DecodeFrom(_, _)
DecodeFrom(s, i) ==
    IF i > Len(s) THEN [ok |-> TRUE, val |-> <<>>]
    ELSE IF s[i] # "%"
    THEN LET rest == DecodeFrom(s, i + 1)
         IN  [ok |-> rest.ok, val |-> <<s[i]>> \o rest.val]
    ELSE LET b == EscapeAt(s, i)
             n == Continuations(b)
         IN  IF b < 0 THEN [ok |-> FALSE, val |-> <<>>]
             ELSE IF b < 128
             THEN LET rest == DecodeFrom(s, i + 3)
                  IN  [ok |-> rest.ok, val |-> <<Chr(b)>> \o rest.val]
             ELSE IF n < 0 \/ \E k \in 1..n :
                                  LET c == EscapeAt(s, i + 3 * k)
                                  IN  c < 128 \/ c > 191
             THEN [ok |-> FALSE, val |-> <<>>]
             ELSE LET rest == DecodeFrom(s, i + 3 * (n + 1))
                  IN  [ok |-> rest.ok, val |-> <<"U+">> \o rest.val]

decodeURIComponent(s) == DecodeFrom(s, 1)

----------------------------------------------------------------------------
(* Node's path module (POSIX), as server.js uses it *)

\* normalizeString: the segments left after resolving "", "." and "..".
RECURSIVE NormSegs(_, _, _)
NormSegs(segs, acc, allowAboveRoot) ==
    IF segs = <<>> THEN acc
    ELSE LET h == segs[1]
             t == Tail(segs)
         IN  IF h = <<>> \/ h = <<".">>
             THEN NormSegs(t, acc, allowAboveRoot)
             ELSE IF h = <<".", ".">>
             THEN IF acc # <<>> /\ acc[Len(acc)] # <<".", ".">>
                  THEN NormSegs(t, SubSeq(acc, 1, Len(acc) - 1), allowAboveRoot)
                  ELSE IF allowAboveRoot
                  THEN NormSegs(t, Append(acc, h), allowAboveRoot)
                  ELSE NormSegs(t, acc, allowAboveRoot)
             ELSE NormSegs(t, Append(acc, h), allowAboveRoot)

\* path.resolve(root, suffix) for an absolute root
PathResolve(root, suffix) ==
    LET full == IF suffix = <<>> THEN root
                ELSE IF suffix[1] = Sep THEN suffix
                ELSE root \o <<Sep>> \o suffix
    IN  <<Sep>> \o JoinSegs(NormSegs(Split(full), <<>>, FALSE))

\* path.join(dir, name) for an absolute dir and a non-empty name
PathJoin(dir, name) ==
    <<Sep>> \o JoinSegs(NormSegs(Split(dir \o <<Sep>> \o name), <<>>, FALSE))

\* path.basename(p) for an absolute p
PathBasename(p) ==
    LET segs == SelectSeq(Split(p), LAMBDA g : g # <<>>)
    IN  IF segs = <<>> THEN <<>> ELSE segs[Len(segs)]

\* path.dirname(p) for an absolute p
PathDirname(p) ==
    LET segs == SelectSeq(Split(p), LAMBDA g : g # <<>>)
    IN  IF Len(segs) <= 1 THEN <<Sep>>
        ELSE <<Sep>> \o JoinSegs(SubSeq(segs, 1, Len(segs) - 1))

\* path.dirname(p) for any p, as in Node: the part before the last separator
\* that is followed by a name; "." when there is none
PosixDirname(p) ==
    LET hasRoot == p # <<>> /\ p[1] = Sep
        ends == {i \in 2..Len(p) : p[i] = Sep /\ \E j \in (i + 1)..Len(p) : p[j] # Sep}
        end == CHOOSE i \in ends : \A j \in ends : j <= i
    IN  IF ends = {} THEN (IF hasRoot THEN <<Sep>> ELSE <<".">>)
        ELSE IF hasRoot /\ end = 2 THEN <<Sep, Sep>>
        ELSE SubSeq(p, 1, end - 1)

\* path.join(a, b) for any a and a name b: the normalised a + "/" + b
PathJoinAny(a, b) ==
    LET joined == IF a = <<>> THEN b ELSE a \o <<Sep>> \o b
        isAbsolute == joined # <<>> /\ joined[1] = Sep
        body == JoinSegs(NormSegs(Split(joined), <<>>, ~isAbsolute))
    IN  IF isAbsolute THEN <<Sep>> \o body
        ELSE IF body = <<>> THEN <<".">>
        ELSE body

----------------------------------------------------------------------------
(* The path sandbox *)

\* server.js:27, the storage root, resolved once at start
RESOLVED_UPLOAD_FOLDER_ROOT == <<"/", "r">>

\* What getSafePath returns for an unsafe path (null): no absolute path is empty.
Null == <<>>

\* server.js:57-75 without the "+ path.sep" of the containment test
getSafePath_NoSeparator(relativePathSuffix) ==
    LET decodedSuffix == decodeURIComponent(relativePathSuffix)
        absoluteTargetPath == PathResolve(RESOLVED_UPLOAD_FOLDER_ROOT, decodedSuffix.val)
    IN  IF ~decodedSuffix.ok THEN Null
        ELSE IF ~StartsWith(absoluteTargetPath, RESOLVED_UPLOAD_FOLDER_ROOT)
        THEN Null
        ELSE absoluteTargetPath

\* server.js:57-75
getSafePath(relativePathSuffix) ==
    LET decodedSuffix == decodeURIComponent(relativePathSuffix)
        absoluteTargetPath == PathResolve(RESOLVED_UPLOAD_FOLDER_ROOT, decodedSuffix.val)
    IN  IF ~decodedSuffix.ok THEN Null    \* the catch branch
        ELSE IF /\ ~StartsWith(absoluteTargetPath, RESOLVED_UPLOAD_FOLDER_ROOT \o <<Sep>>)
                /\ absoluteTargetPath # RESOLVED_UPLOAD_FOLDER_ROOT
        THEN Null
        ELSE absoluteTargetPath

----------------------------------------------------------------------------
(* Direct calls of getSafePath on every short suffix *)

PathAlphabet == {"/", ".", "x", "r", "%", "2", "e"}

RECURSIVE SeqsUpTo(_, _)
SeqsUpTo(S, n) ==
    IF n = 0 THEN {<<>>}
    ELSE LET shorter == SeqsUpTo(S, n - 1)
         IN  shorter \cup {Append(s, c) : s \in {t \in shorter : Len(t) = n - 1}, c \in S}

Suffixes == SeqsUpTo(PathAlphabet, MaxLen)

NoProbe == [suffix |-> <<>>, called |-> FALSE, result |-> Null]

InitPath ==
    /\ fs = <<>>
    /\ shareLinks = <<>>
    /\ issued = <<>>
    /\ now = 0
    /\ reqs = <<>>
    /\ probe \in {[suffix |-> s, called |-> FALSE, result |-> Null] : s \in Suffixes}

CallGetSafePath ==
    /\ ~probe.called
    /\ probe' = [probe EXCEPT !.called = TRUE, !.result = getSafePath(probe.suffix)]
    /\ UNCHANGED <<fs, shareLinks, issued, now, reqs>>

NextPath == CallGetSafePath

SpecPath == InitPath /\ [][NextPath]_vars

\* The segments of an absolute path, "." and ".." resolved.
Segments(p) == NormSegs(Split(p), <<>>, FALSE)

\* q is p or lies below p in the directory tree (segment by segment).
IsWithin(q, p) ==
    LET sq == Segments(q)
        sp == Segments(p)
    IN  Len(sp) <= Len(sq) /\ SubSeq(sq, 1, Len(sp)) = sp

\* Where the decoded suffix points once joined onto the root, computed from
\* its segments alone: an absolute suffix starts from "/", a relative one
\* from the root.
Target(decoded) ==
    IF decoded # <<>> /\ decoded[1] = Sep
    THEN NormSegs(Split(decoded), <<>>, FALSE)
    ELSE NormSegs(Split(decoded), Segments(RESOLVED_UPLOAD_FOLDER_ROOT), FALSE)

\* C1: a call of getSafePath returns null or an absolute path that is the
\* storage root or lies below it; a suffix whose decoded form points outside
\* the root is rejected; a suffix that does not decode is rejected.
C1_Sandbox ==
    probe.called =>
        LET d == decodeURIComponent(probe.suffix)
            rootSegs == Segments(RESOLVED_UPLOAD_FOLDER_ROOT)
        IN  /\ probe.result # Null =>
                /\ probe.result[1] = Sep
                /\ IsWithin(probe.result, RESOLVED_UPLOAD_FOLDER_ROOT)
                /\ \/ probe.result = RESOLVED_UPLOAD_FOLDER_ROOT
                   \/ StartsWith(probe.result, RESOLVED_UPLOAD_FOLDER_ROOT \o <<Sep>>)
            /\ ~d.ok => probe.result = Null
            /\ (d.ok /\ ( \/ Len(Target(d.val)) < Len(rootSegs)
                          \/ SubSeq(Target(d.val), 1, Len(rootSegs)) # rootSegs ))
                   => probe.result = Null

\* C1 witness: a suffix with an escaped ".." that leaves the root was rejected.
C1_Witness ==
    /\ probe.called
    /\ probe.suffix = <<".", "%", "2", "e">>
    /\ probe.result = Null

----------------------------------------------------------------------------
(* The file tree and the fs-extra calls of server.js *)

Dir == [dir |-> TRUE, data |-> 0]
File(d) == [dir |-> FALSE, data |-> d]

\* fs.pathExists(p)
pathExists(f, p) == p \in DOMAIN f

\* (await fs.stat(p)).isDirectory() and .isFile(); stat throws when p is absent
isDirectory(f, p) == f[p].dir
isFile(f, p) == ~f[p].dir

\* q is p or an entry below p
Descends(q, p) == q = p \/ StartsWith(q, p \o <<Sep>>)

\* The entries below the storage root.
Entries(f) == {q \in DOMAIN f : StartsWith(q, RESOLVED_UPLOAD_FOLDER_ROOT \o <<Sep>>)}

\* fs.remove(p) taking p alone and leaving what is below it
fsRemove_Shallow(f, p) == [q \in DOMAIN f \ {p} |-> f[q]]

\* fs.remove(p): p and everything below it; no error when p is absent
fsRemove(f, p) == [q \in {e \in DOMAIN f : ~Descends(e, p)} |-> f[q]]

\* p and its ancestors, "/" excluded
RECURSIVE Chain(_)
Chain(p) == IF p = <<Sep>> \/ p = <<>> THEN {} ELSE {p} \cup Chain(PathDirname(p))

\* fs.ensureDir(p) fails when p or an ancestor of p is a regular file
ensureDirFails(f, p) == \E q \in Chain(p) : q \in DOMAIN f /\ ~f[q].dir

\* fs.ensureDir(p): mkdir -p
ensureDir(f, p) == [q \in DOMAIN f \cup Chain(p) |-> IF q \in DOMAIN f THEN f[q] ELSE Dir]

----------------------------------------------------------------------------
(* Requests *)

\* server.js:14
SHARE_DURATION_HOURS == 1

\* SHARE_DURATION_HOURS * 60 * 60 * 1000 (server.js:388, 402)
ExpiryMs == SHARE_DURATION_HOURS * 60 * 60 * 1000

\* null in a JSON answer; no path is this one-token sequence
JsonNull == <<"null">>

\* The JSON body of a directory listing (server.js:174-178), here still empty.
NoListing == [current_path |-> <<>>, parent_path |-> JsonNull, items |-> <<>>]

Idle ==
    [op |-> "none", pc |-> "idle", a |-> <<>>, b |-> <<>>, id |-> 0,
     data |-> 0, loc |-> <<>>, status |-> 0, body |-> 0, listing |-> NoListing]

\* A connection can carry a new request once the last one is over.
Free(c) == reqs[c].pc \in {"idle", "done"}

NewReq(o, p, a1, b1, i, d) ==
    [op |-> o, pc |-> p, a |-> a1, b |-> b1, id |-> i,
     data |-> d, loc |-> <<>>, status |-> 0, body |-> 0, listing |-> NoListing]

\* res.status(st).json(...) or .send(...): the request is answered
Answered(r, st, bd) == [r EXCEPT !.pc = "done", !.status = st, !.body = bd]

Init ==
    /\ fs = (<<Sep>> :> Dir) @@ (RESOLVED_UPLOAD_FOLDER_ROOT :> Dir)
    /\ shareLinks = <<>>
    /\ issued = <<>>
    /\ now = 0
    /\ reqs = [c \in {1} |-> Idle]
    /\ probe = NoProbe

\* A timer that drops the expired entries of the registry as time passes
TickMs_Sweeping ==
    /\ now % ExpiryMs < MaxMs
    /\ now' = now + 1
    /\ shareLinks' = [i \in {j \in DOMAIN shareLinks :
                                 now' <= shareLinks[j].created_at + ExpiryMs}
                          |-> shareLinks[i]]
    /\ UNCHANGED <<fs, issued, reqs, probe>>

\* Time passes: one millisecond, or one expiry window.
TickMs ==
    /\ now % ExpiryMs < MaxMs
    /\ now' = now + 1
    /\ UNCHANGED <<fs, shareLinks, issued, reqs, probe>>

TickWindow ==
    /\ now \div ExpiryMs < MaxHours
    /\ now' = now + ExpiryMs
    /\ UNCHANGED <<fs, shareLinks, issued, reqs, probe>>

----------------------------------------------------------------------------
(* POST /api/delete, server.js:280-314 *)

\* server.js:281-296, up to the first await, without the root check
StartDelete_NoRootCheck(c, p) ==
    /\ Free(c)
    /\ LET itemFullPath == getSafePath(p)
       IN  reqs' = [reqs EXCEPT ![c] =
                IF p = <<>> THEN Answered(NewReq("delete", "", p, <<>>, 0, 0), 400, 0)
                ELSE IF itemFullPath = Null
                THEN Answered(NewReq("delete", "", p, <<>>, 0, 0), 400, 0)
                ELSE NewReq("delete", "del_exists", p, <<>>, 0, 0)]
    /\ UNCHANGED <<fs, shareLinks, issued, now, probe>>

\* server.js:281-296 answering 404 for the root
StartDelete_RootNotFound(c, p) ==
    /\ Free(c)
    /\ LET itemFullPath == getSafePath(p)
       IN  reqs' = [reqs EXCEPT ![c] =
                IF p = <<>> THEN Answered(NewReq("delete", "", p, <<>>, 0, 0), 400, 0)
                ELSE IF itemFullPath = RESOLVED_UPLOAD_FOLDER_ROOT
                THEN Answered(NewReq("delete", "", p, <<>>, 0, 0), 404, 0)
                ELSE IF itemFullPath = Null
                THEN Answered(NewReq("delete", "", p, <<>>, 0, 0), 400, 0)
                ELSE NewReq("delete", "del_exists", p, <<>>, 0, 0)]
    /\ UNCHANGED <<fs, shareLinks, issued, now, probe>>

\* server.js:281-296, up to the first await
StartDelete(c, p) ==
    /\ Free(c)
    /\ LET itemFullPath == getSafePath(p)
       IN  reqs' = [reqs EXCEPT ![c] =
                IF p = <<>> THEN Answered(NewReq("delete", "", p, <<>>, 0, 0), 400, 0)
                ELSE IF itemFullPath = RESOLVED_UPLOAD_FOLDER_ROOT
                THEN Answered(NewReq("delete", "", p, <<>>, 0, 0), 403, 0)
                ELSE IF itemFullPath = Null
                THEN Answered(NewReq("delete", "", p, <<>>, 0, 0), 400, 0)
                ELSE NewReq("delete", "del_exists", p, <<>>, 0, 0)]
    /\ UNCHANGED <<fs, shareLinks, issued, now, probe>>

\* server.js:300-302
DeleteExists(c) ==
    /\ reqs[c].pc = "del_exists"
    /\ reqs' = [reqs EXCEPT ![c] =
            IF ~pathExists(fs, getSafePath(reqs[c].a))
            THEN Answered(@, 404, 0)
            ELSE [@ EXCEPT !.pc = "del_remove"]]
    /\ UNCHANGED <<fs, shareLinks, issued, now, probe>>

\* server.js:304-308
DeleteRemove(c) ==
    /\ reqs[c].pc = "del_remove"
    /\ fs' = fsRemove(fs, getSafePath(reqs[c].a))
    /\ reqs' = [reqs EXCEPT ![c] = Answered(@, 200, 0)]
    /\ UNCHANGED <<shareLinks, issued, now, probe>>

----------------------------------------------------------------------------
(* POST /api/share, server.js:320-374 *)

\* server.js:321-330, up to the first await
StartShare(c, p) ==
    /\ Free(c)
    /\ reqs' = [reqs EXCEPT ![c] =
            IF p = <<>> THEN Answered(NewReq("share", "", p, <<>>, 0, 0), 400, 0)
            ELSE IF getSafePath(p) = Null
            THEN Answered(NewReq("share", "", p, <<>>, 0, 0), 400, 0)
            ELSE NewReq("share", "sh_exists", p, <<>>, 0, 0)]
    /\ UNCHANGED <<fs, shareLinks, issued, now, probe>>

\* server.js:333-335
ShareExists(c) ==
    /\ reqs[c].pc = "sh_exists"
    /\ reqs' = [reqs EXCEPT ![c] =
            IF ~pathExists(fs, getSafePath(reqs[c].a))
            THEN Answered(@, 404, 0)
            ELSE [@ EXCEPT !.pc = "sh_stat"]]
    /\ UNCHANGED <<fs, shareLinks, issued, now, probe>>

\* server.js:336-373 without the isFile test of line 337
ShareStat_NoFileCheck(c) ==
    /\ reqs[c].pc = "sh_stat"
    /\ LET fileFullPath == getSafePath(reqs[c].a)
           shareId == Len(issued) + 1
       IN  IF ~pathExists(fs, fileFullPath)
           THEN /\ reqs' = [reqs EXCEPT ![c] = Answered(@, 500, 0)]
                /\ UNCHANGED <<shareLinks, issued>>
           ELSE /\ shareLinks' = shareLinks @@
                        (shareId :> [path |-> reqs[c].a, created_at |-> now])
                /\ issued' = Append(issued, now)
                /\ reqs' = [reqs EXCEPT ![c] = Answered([@ EXCEPT !.id = shareId], 200, 0)]
    /\ UNCHANGED <<fs, now, probe>>

\* server.js:336-373: stat, then the entry is stored under a fresh uuid; the
\* QR code that follows changes no state.
ShareStat(c) ==
    /\ reqs[c].pc = "sh_stat"
    /\ LET fileFullPath == getSafePath(reqs[c].a)
           shareId == Len(issued) + 1
       IN  IF ~pathExists(fs, fileFullPath)
           THEN /\ reqs' = [reqs EXCEPT ![c] = Answered(@, 500, 0)]
                /\ UNCHANGED <<shareLinks, issued>>
           ELSE IF ~isFile(fs, fileFullPath)
           THEN /\ reqs' = [reqs EXCEPT ![c] = Answered(@, 400, 0)]
                /\ UNCHANGED <<shareLinks, issued>>
           ELSE /\ shareLinks' = shareLinks @@
                        (shareId :> [path |-> reqs[c].a, created_at |-> now])
                /\ issued' = Append(issued, now)
                /\ reqs' = [reqs EXCEPT ![c] = Answered([@ EXCEPT !.id = shareId], 200, 0)]
    /\ UNCHANGED <<fs, now, probe>>

----------------------------------------------------------------------------
(* GET /share/:shareId, server.js:377-452 *)

\* the expiry test with >= in place of >
Expired_Inclusive(link, t) == t >= link.created_at + ExpiryMs

\* new Date() > new Date(created_at.getTime() + SHARE_DURATION_HOURS * 3600000)
Expired(link, t) == t > link.created_at + ExpiryMs

\* delete shareLinks[id]
Without(links, ids) == [i \in DOMAIN links \ ids |-> links[i]]

\* a cleanup loop that stops after the first expired entry
Sweep_First(links, t) ==
    LET old == {i \in DOMAIN links : Expired(links[i], t)}
    IN  IF old = {} THEN links
        ELSE Without(links, {CHOOSE i \in old : \A j \in old : i <= j})

\* server.js:386-393, the cleanup loop of a lookup miss
Sweep(links, t) == Without(links, {i \in DOMAIN links : Expired(links[i], t)})

\* server.js:378-419 with an access that renews created_at (sliding expiry)
StartAccess_Sliding(c, shareId) ==
    /\ Free(c)
    /\ LET r == NewReq("access", "sa_exists", <<>>, <<>>, shareId, 0)
       IN  IF shareId \notin DOMAIN shareLinks
           THEN /\ shareLinks' = Sweep(shareLinks, now)
                /\ reqs' = [reqs EXCEPT ![c] = Answered(r, 404, 0)]
           ELSE IF Expired(shareLinks[shareId], now)
           THEN /\ shareLinks' = Without(shareLinks, {shareId})
                /\ reqs' = [reqs EXCEPT ![c] = Answered(r, 410, 0)]
           ELSE IF getSafePath(shareLinks[shareId].path) = Null
           THEN /\ shareLinks' = Without(shareLinks, {shareId})
                /\ reqs' = [reqs EXCEPT ![c] = Answered(r, 404, 0)]
           ELSE /\ reqs' = [reqs EXCEPT ![c] = [r EXCEPT !.loc = shareLinks[shareId].path]]
                /\ shareLinks' = [shareLinks EXCEPT ![shareId].created_at = now]
    /\ UNCHANGED <<fs, issued, now, probe>>

\* server.js:378-419 answering 404 for an expired link
StartAccess_Expired404(c, shareId) ==
    /\ Free(c)
    /\ LET r == NewReq("access", "sa_exists", <<>>, <<>>, shareId, 0)
       IN  IF shareId \notin DOMAIN shareLinks
           THEN /\ shareLinks' = Sweep(shareLinks, now)
                /\ reqs' = [reqs EXCEPT ![c] = Answered(r, 404, 0)]
           ELSE IF Expired(shareLinks[shareId], now)
           THEN /\ shareLinks' = Without(shareLinks, {shareId})
                /\ reqs' = [reqs EXCEPT ![c] = Answered(r, 404, 0)]
           ELSE IF getSafePath(shareLinks[shareId].path) = Null
           THEN /\ shareLinks' = Without(shareLinks, {shareId})
                /\ reqs' = [reqs EXCEPT ![c] = Answered(r, 404, 0)]
           ELSE /\ reqs' = [reqs EXCEPT ![c] = [r EXCEPT !.loc = shareLinks[shareId].path]]
                /\ UNCHANGED shareLinks
    /\ UNCHANGED <<fs, issued, now, probe>>

\* server.js:378-419 with the cleanup loop run on every lookup
StartAccess_SweepAlways(c, shareId) ==
    /\ Free(c)
    /\ LET r == NewReq("access", "sa_exists", <<>>, <<>>, shareId, 0)
       IN  IF shareId \notin DOMAIN shareLinks
           THEN /\ shareLinks' = Sweep(shareLinks, now)
                /\ reqs' = [reqs EXCEPT ![c] = Answered(r, 404, 0)]
           ELSE IF Expired(shareLinks[shareId], now)
           THEN /\ shareLinks' = Sweep(shareLinks, now)
                /\ reqs' = [reqs EXCEPT ![c] = Answered(r, 410, 0)]
           ELSE IF getSafePath(shareLinks[shareId].path) = Null
           THEN /\ shareLinks' = Without(shareLinks, {shareId})
                /\ reqs' = [reqs EXCEPT ![c] = Answered(r, 404, 0)]
           ELSE /\ reqs' = [reqs EXCEPT ![c] = [r EXCEPT !.loc = shareLinks[shareId].path]]
                /\ shareLinks' = Sweep(shareLinks, now)
    /\ UNCHANGED <<fs, issued, now, probe>>

\* server.js:378-419 with the stored path resolved as "/" + path
StartAccess_AbsoluteSuffix(c, shareId) ==
    /\ Free(c)
    /\ LET r == NewReq("access", "sa_exists", <<>>, <<>>, shareId, 0)
       IN  IF shareId \notin DOMAIN shareLinks
           THEN /\ shareLinks' = Sweep(shareLinks, now)
                /\ reqs' = [reqs EXCEPT ![c] = Answered(r, 404, 0)]
           ELSE IF Expired(shareLinks[shareId], now)
           THEN /\ shareLinks' = Without(shareLinks, {shareId})
                /\ reqs' = [reqs EXCEPT ![c] = Answered(r, 410, 0)]
           ELSE IF getSafePath(<<Sep>> \o shareLinks[shareId].path) = Null
           THEN /\ shareLinks' = Without(shareLinks, {shareId})
                /\ reqs' = [reqs EXCEPT ![c] = Answered(r, 404, 0)]
           ELSE /\ reqs' = [reqs EXCEPT ![c] = [r EXCEPT !.loc = shareLinks[shareId].path]]
                /\ UNCHANGED shareLinks
    /\ UNCHANGED <<fs, issued, now, probe>>

\* server.js:378-419, up to the first await
StartAccess(c, shareId) ==
    /\ Free(c)
    /\ LET r == NewReq("access", "sa_exists", <<>>, <<>>, shareId, 0)
       IN  IF shareId \notin DOMAIN shareLinks
           THEN /\ shareLinks' = Sweep(shareLinks, now)
                /\ reqs' = [reqs EXCEPT ![c] = Answered(r, 404, 0)]
           ELSE IF Expired(shareLinks[shareId], now)
           THEN /\ shareLinks' = Without(shareLinks, {shareId})
                /\ reqs' = [reqs EXCEPT ![c] = Answered(r, 410, 0)]
           ELSE IF getSafePath(shareLinks[shareId].path) = Null
           THEN /\ shareLinks' = Without(shareLinks, {shareId})
                /\ reqs' = [reqs EXCEPT ![c] = Answered(r, 404, 0)]
           ELSE /\ reqs' = [reqs EXCEPT ![c] = [r EXCEPT !.loc = shareLinks[shareId].path]]
                /\ UNCHANGED shareLinks
    /\ UNCHANGED <<fs, issued, now, probe>>

\* server.js:423-427
AccessExists(c) ==
    /\ reqs[c].pc = "sa_exists"
    /\ IF ~pathExists(fs, getSafePath(reqs[c].loc))
       THEN /\ shareLinks' = Without(shareLinks, {reqs[c].id})
            /\ reqs' = [reqs EXCEPT ![c] = Answered(@, 404, 0)]
       ELSE /\ reqs' = [reqs EXCEPT ![c] = [@ EXCEPT !.pc = "sa_stat"]]
            /\ UNCHANGED shareLinks
    /\ UNCHANGED <<fs, issued, now, probe>>

\* server.js:428-433 without the delete of line 431
AccessStat_KeepEntry(c) ==
    /\ reqs[c].pc = "sa_stat"
    /\ LET safeFullPath == getSafePath(reqs[c].loc)
       IN  IF ~pathExists(fs, safeFullPath)
           THEN /\ reqs' = [reqs EXCEPT ![c] = Answered(@, 500, 0)]
                /\ UNCHANGED shareLinks
           ELSE IF ~isFile(fs, safeFullPath)
           THEN /\ UNCHANGED shareLinks
                /\ reqs' = [reqs EXCEPT ![c] = Answered(@, 404, 0)]
           ELSE /\ reqs' = [reqs EXCEPT ![c] = [@ EXCEPT !.pc = "sa_send"]]
                /\ UNCHANGED shareLinks
    /\ UNCHANGED <<fs, issued, now, probe>>

\* server.js:428-433 and the catch of 448-451
AccessStat(c) ==
    /\ reqs[c].pc = "sa_stat"
    /\ LET safeFullPath == getSafePath(reqs[c].loc)
       IN  IF ~pathExists(fs, safeFullPath)
           THEN /\ reqs' = [reqs EXCEPT ![c] = Answered(@, 500, 0)]
                /\ UNCHANGED shareLinks
           ELSE IF ~isFile(fs, safeFullPath)
           THEN /\ shareLinks' = Without(shareLinks, {reqs[c].id})
                /\ reqs' = [reqs EXCEPT ![c] = Answered(@, 404, 0)]
           ELSE /\ reqs' = [reqs EXCEPT ![c] = [@ EXCEPT !.pc = "sa_send"]]
                /\ UNCHANGED shareLinks
    /\ UNCHANGED <<fs, issued, now, probe>>

\* server.js:435-446: res.download opens the file and streams it
AccessSend(c) ==
    /\ reqs[c].pc = "sa_send"
    /\ LET safeFullPath == getSafePath(reqs[c].loc)
       IN  reqs' = [reqs EXCEPT ![c] =
                IF pathExists(fs, safeFullPath) /\ isFile(fs, safeFullPath)
                THEN Answered(@, 200, fs[safeFullPath].data)
                ELSE Answered(@, 500, 0)]
    /\ UNCHANGED <<fs, shareLinks, issued, now, probe>>

----------------------------------------------------------------------------
(* POST /api/move, server.js:455-517 *)

\* fs.move(src, dest) that does not fail when src is absent
fsMoveFails_NoSourceCheck(f, src, dest) ==
    \/ pathExists(f, dest)
    \/ Descends(dest, src)
    \/ ensureDirFails(f, PathDirname(dest))

\* fs.move(src, dest) fails: src absent, dest present, dest inside src, or
\* the parent of dest cannot be made a directory
fsMoveFails(f, src, dest) ==
    \/ ~pathExists(f, src)
    \/ pathExists(f, dest)
    \/ Descends(dest, src)
    \/ ensureDirFails(f, PathDirname(dest))

\* fs.copy(src, dest): the entry and everything below it, left at src too
fsMove_Copy(f, src, dest) ==
    LET g == ensureDir(f, PathDirname(dest))
        moved == {q \in DOMAIN g : Descends(q, src)}
        To(q) == dest \o SubSeq(q, Len(src) + 1, Len(q))
    IN  [q \in DOMAIN g \cup {To(m) : m \in moved} |->
            IF q \in DOMAIN g THEN g[q]
            ELSE g[CHOOSE m \in moved : To(m) = q]]

\* fs.move(src, dest): the entry and everything below it changes place
fsMove(f, src, dest) ==
    LET g == ensureDir(f, PathDirname(dest))
        moved == {q \in DOMAIN g : Descends(q, src)}
        To(q) == dest \o SubSeq(q, Len(src) + 1, Len(q))
        kept == DOMAIN g \ moved
    IN  [q \in kept \cup {To(m) : m \in moved} |->
            IF q \in kept THEN g[q]
            ELSE g[CHOOSE m \in moved : To(m) = q]]

\* server.js:490-491
FinalDestination(src, destDir) == PathJoin(destDir, PathBasename(src))

\* server.js:456-468, up to the first await
StartMove(c, s, d) ==
    /\ Free(c)
    /\ reqs' = [reqs EXCEPT ![c] =
            IF s = <<>> THEN Answered(NewReq("move", "", s, d, 0, 0), 400, 0)
            ELSE IF getSafePath(s) = Null \/ getSafePath(d) = Null
            THEN Answered(NewReq("move", "", s, d, 0, 0), 400, 0)
            ELSE NewReq("move", "mv_src", s, d, 0, 0)]
    /\ UNCHANGED <<fs, shareLinks, issued, now, probe>>

\* server.js:471-473
MoveSourceExists(c) ==
    /\ reqs[c].pc = "mv_src"
    /\ reqs' = [reqs EXCEPT ![c] =
            IF ~pathExists(fs, getSafePath(reqs[c].a))
            THEN Answered(@, 404, 0)
            ELSE [@ EXCEPT !.pc = "mv_dst"]]
    /\ UNCHANGED <<fs, shareLinks, issued, now, probe>>

\* server.js:478-480
MoveDestExists(c) ==
    /\ reqs[c].pc = "mv_dst"
    /\ reqs' = [reqs EXCEPT ![c] =
            IF ~pathExists(fs, getSafePath(reqs[c].b))
            THEN Answered(@, 404, 0)
            ELSE [@ EXCEPT !.pc = "mv_dstat"]]
    /\ UNCHANGED <<fs, shareLinks, issued, now, probe>>

\* server.js:481-496: stat of the destination, then the same-location test
MoveDestStat(c) ==
    /\ reqs[c].pc = "mv_dstat"
    /\ LET sourceFullPath == getSafePath(reqs[c].a)
           destinationDirFullPath == getSafePath(reqs[c].b)
           finalDestinationPath == FinalDestination(sourceFullPath, destinationDirFullPath)
       IN  reqs' = [reqs EXCEPT ![c] =
                IF ~pathExists(fs, destinationDirFullPath) THEN Answered(@, 500, 0)
                ELSE IF ~isDirectory(fs, destinationDirFullPath) THEN Answered(@, 400, 0)
                ELSE IF \/ sourceFullPath = finalDestinationPath
                        \/ sourceFullPath = destinationDirFullPath
                THEN Answered(@, 400, 0)
                ELSE [@ EXCEPT !.pc = "mv_sstat"]]
    /\ UNCHANGED <<fs, shareLinks, issued, now, probe>>

\* server.js:498-500 without the test for a move into a subfolder
MoveSourceStat_NoSubfolderCheck(c) ==
    /\ reqs[c].pc = "mv_sstat"
    /\ reqs' = [reqs EXCEPT ![c] =
            IF ~pathExists(fs, getSafePath(reqs[c].a)) THEN [@ EXCEPT !.pc = "hung"]
            ELSE [@ EXCEPT !.pc = "mv_final"]]
    /\ UNCHANGED <<fs, shareLinks, issued, now, probe>>

\* server.js:498-500: stat of the source, outside any try: when it throws
\* the handler's promise rejects and no response is sent
MoveSourceStat(c) ==
    /\ reqs[c].pc = "mv_sstat"
    /\ LET sourceFullPath == getSafePath(reqs[c].a)
           finalDestinationPath == FinalDestination(sourceFullPath, getSafePath(reqs[c].b))
       IN  reqs' = [reqs EXCEPT ![c] =
                IF ~pathExists(fs, sourceFullPath) THEN [@ EXCEPT !.pc = "hung"]
                ELSE IF /\ isDirectory(fs, sourceFullPath)
                        /\ StartsWith(finalDestinationPath, sourceFullPath \o <<Sep>>)
                THEN Answered(@, 400, 0)
                ELSE [@ EXCEPT !.pc = "mv_final"]]
    /\ UNCHANGED <<fs, shareLinks, issued, now, probe>>

\* server.js:504-506 without the test: fs.move is called in any case
MoveFinalExists_NoCheck(c) ==
    /\ reqs[c].pc = "mv_final"
    /\ reqs' = [reqs EXCEPT ![c] = [@ EXCEPT !.pc = "mv_move"]]
    /\ UNCHANGED <<fs, shareLinks, issued, now, probe>>

\* server.js:504-506
MoveFinalExists(c) ==
    /\ reqs[c].pc = "mv_final"
    /\ reqs' = [reqs EXCEPT ![c] =
            IF pathExists(fs, FinalDestination(getSafePath(reqs[c].a), getSafePath(reqs[c].b)))
            THEN Answered(@, 409, 0)
            ELSE [@ EXCEPT !.pc = "mv_move"]]
    /\ UNCHANGED <<fs, shareLinks, issued, now, probe>>

\* server.js:508-516
MoveRename(c) ==
    /\ reqs[c].pc = "mv_move"
    /\ LET sourceFullPath == getSafePath(reqs[c].a)
           finalDestinationPath == FinalDestination(sourceFullPath, getSafePath(reqs[c].b))
       IN  IF fsMoveFails(fs, sourceFullPath, finalDestinationPath)
           THEN /\ reqs' = [reqs EXCEPT ![c] = Answered(@, 500, 0)]
                /\ UNCHANGED fs
           ELSE /\ fs' = fsMove(fs, sourceFullPath, finalDestinationPath)
                /\ reqs' = [reqs EXCEPT ![c] = Answered(@, 200, 0)]
    /\ UNCHANGED <<shareLinks, issued, now, probe>>

----------------------------------------------------------------------------
(* Names *)

\* the character class of server.js:100 and 254: / \ ? % * : | " < >
IllegalChars == {"/", "\\", "?", "%", "*", ":", "|", "\"", "<", ">"}

\* name.replace(/[/\\?%*:|"<>]/g, '_')
ReplaceIllegal(name) ==
    [i \in 1..Len(name) |-> IF name[i] \in IllegalChars THEN "_" ELSE name[i]]

\* server.js:254: a name made of dots only becomes "_"
SafeDirName(dir_name) ==
    LET replaced == ReplaceIllegal(dir_name)
    IN  IF replaced # <<>> /\ \A i \in 1..Len(replaced) : replaced[i] = "."
        THEN <<"_">>
        ELSE replaced

\* the position of the last "." of name, 0 when there is none
LastDot(name) ==
    IF \A i \in 1..Len(name) : name[i] # "." THEN 0
    ELSE CHOOSE i \in 1..Len(name) :
             name[i] = "." /\ \A j \in (i + 1)..Len(name) : name[j] # "."

\* path.extname(name) for a name without separators
PathExtname(name) ==
    LET d == LastDot(name)
    IN  IF d <= 1 \/ name = <<".", ".">> THEN <<>>
        ELSE SubSeq(name, d, Len(name))

\* String(n) for a natural number n
RECURSIVE Decimal(_)
Decimal(n) ==
    LET digit == <<"0", "1", "2", "3", "4", "5", "6", "7", "8", "9">>[(n % 10) + 1]
    IN  IF n < 10 THEN <<digit>> ELSE Append(Decimal(n \div 10), digit)

\* server.js:110-113: `${base}_${timestamp}${ext}`
TimestampedName(safeName, timestamp) ==
    LET ext == PathExtname(safeName)
        base == SubSeq(safeName, 1, Len(safeName) - Len(ext))
    IN  base \o <<"_">> \o Decimal(timestamp) \o ext

----------------------------------------------------------------------------
(* POST /api/mkdir, server.js:247-277 *)

NewDirPath(parent_path, dir_name) == PathJoin(getSafePath(parent_path), SafeDirName(dir_name))

\* server.js:248-260, up to the first await
StartMkdir(c, parent_path, dir_name) ==
    /\ Free(c)
    /\ LET safeDirName == SafeDirName(dir_name)
       IN  reqs' = [reqs EXCEPT ![c] =
                IF dir_name = <<>>
                THEN Answered(NewReq("mkdir", "", parent_path, dir_name, 0, 0), 400, 0)
                ELSE IF safeDirName = <<>> \/ safeDirName = <<".">> \/ safeDirName = <<".", ".">>
                THEN Answered(NewReq("mkdir", "", parent_path, dir_name, 0, 0), 400, 0)
                ELSE IF getSafePath(parent_path) = Null
                THEN Answered(NewReq("mkdir", "", parent_path, dir_name, 0, 0), 400, 0)
                ELSE NewReq("mkdir", "mk_pexists", parent_path, dir_name, 0, 0)]
    /\ UNCHANGED <<fs, shareLinks, issued, now, probe>>

\* server.js:260, second operand
MkdirParentExists(c) ==
    /\ reqs[c].pc = "mk_pexists"
    /\ reqs' = [reqs EXCEPT ![c] =
            IF ~pathExists(fs, getSafePath(reqs[c].a))
            THEN Answered(@, 400, 0)
            ELSE [@ EXCEPT !.pc = "mk_pstat"]]
    /\ UNCHANGED <<fs, shareLinks, issued, now, probe>>

\* server.js:260, third operand: a stat outside any try
MkdirParentStat(c) ==
    /\ reqs[c].pc = "mk_pstat"
    /\ LET parentDir == getSafePath(reqs[c].a)
       IN  reqs' = [reqs EXCEPT ![c] =
                IF ~pathExists(fs, parentDir) THEN [@ EXCEPT !.pc = "hung"]
                ELSE IF ~isDirectory(fs, parentDir) THEN Answered(@, 400, 0)
                ELSE [@ EXCEPT !.pc = "mk_exists"]]
    /\ UNCHANGED <<fs, shareLinks, issued, now, probe>>

\* server.js:267-269
MkdirExists(c) ==
    /\ reqs[c].pc = "mk_exists"
    /\ reqs' = [reqs EXCEPT ![c] =
            IF pathExists(fs, NewDirPath(reqs[c].a, reqs[c].b))
            THEN Answered(@, 409, 0)
            ELSE [@ EXCEPT !.pc = "mk_ensure"]]
    /\ UNCHANGED <<fs, shareLinks, issued, now, probe>>

\* server.js:270-276
MkdirEnsure(c) ==
    /\ reqs[c].pc = "mk_ensure"
    /\ LET newDirPath == NewDirPath(reqs[c].a, reqs[c].b)
       IN  IF ensureDirFails(fs, newDirPath)
           THEN /\ reqs' = [reqs EXCEPT ![c] = Answered(@, 500, 0)]
                /\ UNCHANGED fs
           ELSE /\ fs' = ensureDir(fs, newDirPath)
                /\ reqs' = [reqs EXCEPT ![c] = Answered(@, 200, 0)]
    /\ UNCHANGED <<shareLinks, issued, now, probe>>

----------------------------------------------------------------------------
(* POST /api/save, server.js:520-556 *)

\* fs.writeFile(p, content) fails on a directory and in a missing directory
writeFileFails(f, p) ==
    \/ pathExists(f, p) /\ isDirectory(f, p)
    \/ ~pathExists(f, PathDirname(p))
    \/ ~isDirectory(f, PathDirname(p))

\* fs.writeFile(p, content): creates the file or replaces its content
writeFile(f, p, content) == [q \in DOMAIN f \cup {p} |-> IF q = p THEN File(content) ELSE f[q]]

\* server.js:521-531, up to the first await
StartSave(c, p, content) ==
    /\ Free(c)
    /\ reqs' = [reqs EXCEPT ![c] =
            IF p = <<>> THEN Answered(NewReq("save", "", p, <<>>, 0, content), 400, 0)
            ELSE IF getSafePath(p) = Null
            THEN Answered(NewReq("save", "", p, <<>>, 0, content), 400, 0)
            ELSE NewReq("save", "sv_exists", p, <<>>, 0, content)]
    /\ UNCHANGED <<fs, shareLinks, issued, now, probe>>

\* server.js:535-537 without the existence test
SaveExists_NoCheck(c) ==
    /\ reqs[c].pc = "sv_exists"
    /\ reqs' = [reqs EXCEPT ![c] = [@ EXCEPT !.pc = "sv_stat"]]
    /\ UNCHANGED <<fs, shareLinks, issued, now, probe>>

\* server.js:535-537
SaveExists(c) ==
    /\ reqs[c].pc = "sv_exists"
    /\ reqs' = [reqs EXCEPT ![c] =
            IF ~pathExists(fs, getSafePath(reqs[c].a))
            THEN Answered(@, 404, 0)
            ELSE [@ EXCEPT !.pc = "sv_stat"]]
    /\ UNCHANGED <<fs, shareLinks, issued, now, probe>>

\* server.js:538-545
SaveStat(c) ==
    /\ reqs[c].pc = "sv_stat"
    /\ LET fileFullPath == getSafePath(reqs[c].a)
       IN  reqs' = [reqs EXCEPT ![c] =
                IF ~pathExists(fs, fileFullPath) THEN Answered(@, 500, 0)
                ELSE IF ~isFile(fs, fileFullPath) THEN Answered(@, 400, 0)
                ELSE [@ EXCEPT !.pc = "sv_write"]]
    /\ UNCHANGED <<fs, shareLinks, issued, now, probe>>

\* server.js:547-555
SaveWrite(c) ==
    /\ reqs[c].pc = "sv_write"
    /\ LET fileFullPath == getSafePath(reqs[c].a)
       IN  IF writeFileFails(fs, fileFullPath)
           THEN /\ reqs' = [reqs EXCEPT ![c] = Answered(@, 500, 0)]
                /\ UNCHANGED fs
           ELSE /\ fs' = writeFile(fs, fileFullPath, reqs[c].data)
                /\ reqs' = [reqs EXCEPT ![c] = Answered(@, 200, 0)]
    /\ UNCHANGED <<shareLinks, issued, now, probe>>

----------------------------------------------------------------------------
(* POST /api/upload/:subpath, server.js:79-121 and 186-199 *)

\* server.js:80-87 with the root as the fallback of a rejected subpath
UploadDir_Fallback(subpath) ==
    IF getSafePath(subpath) = Null THEN RESOLVED_UPLOAD_FOLDER_ROOT ELSE getSafePath(subpath)

\* server.js:82, 101: the directory the upload goes to, Null when rejected
UploadDir(subpath) == getSafePath(subpath)

\* server.js:80-87: the destination callback up to fs.ensureDir
\* An error handed to a multer callback reaches next(err) and with it the
\* error handler of the route, server.js:195-199, which answers 400.
StartUpload(c, subpath, originalname, content) ==
    /\ Free(c)
    /\ reqs' = [reqs EXCEPT ![c] =
            IF UploadDir(subpath) = Null
            THEN Answered(NewReq("upload", "", subpath, originalname, 0, content), 400, 0)
            ELSE NewReq("upload", "up_ensure", subpath, originalname, 0, content)]
    /\ UNCHANGED <<fs, shareLinks, issued, now, probe>>

\* server.js:89-96, then the filename callback up to fs.pathExists (98-107)
UploadEnsureDir(c) ==
    /\ reqs[c].pc = "up_ensure"
    /\ LET targetDir == UploadDir(reqs[c].a)
       IN  IF ensureDirFails(fs, targetDir)
           THEN /\ reqs' = [reqs EXCEPT ![c] = Answered(@, 400, 0)]
                /\ UNCHANGED fs
           ELSE /\ fs' = ensureDir(fs, targetDir)
                /\ reqs' = [reqs EXCEPT ![c] = [@ EXCEPT !.pc = "up_name"]]
    /\ UNCHANGED <<shareLinks, issued, now, probe>>

\* server.js:107-119: the name the file is stored under
UploadFilename(c) ==
    /\ reqs[c].pc = "up_name"
    /\ LET safeName == ReplaceIllegal(reqs[c].b)
           potentialPath == PathJoin(UploadDir(reqs[c].a), safeName)
       IN  reqs' = [reqs EXCEPT ![c] =
                [@ EXCEPT !.pc = "up_write",
                          !.loc = IF pathExists(fs, potentialPath)
                                  THEN TimestampedName(safeName, now)
                                  ELSE safeName]]
    /\ UNCHANGED <<fs, shareLinks, issued, now, probe>>

\* multer's disk storage writes the stream to destination/filename; then
\* server.js:186-194 answers, or server.js:195-199 when the write failed
UploadWrite(c) ==
    /\ reqs[c].pc = "up_write"
    /\ LET finalPath == PathJoin(UploadDir(reqs[c].a), reqs[c].loc)
       IN  IF writeFileFails(fs, finalPath)
           THEN /\ reqs' = [reqs EXCEPT ![c] = Answered(@, 400, 0)]
                /\ UNCHANGED fs
           ELSE /\ fs' = writeFile(fs, finalPath, reqs[c].data)
                /\ reqs' = [reqs EXCEPT ![c] = Answered(@, 200, 0)]
    /\ UNCHANGED <<shareLinks, issued, now, probe>>

----------------------------------------------------------------------------
(* GET /api/browse/:subpath, server.js:132-183 *)

\* The collation of localeCompare for the characters of the names at hand:
\* punctuation, then digits, then letters, upper and lower case alike.
Collation ==
    << "_", "-", ".", "0", "1", "2", "3", "4", "5", "6", "7", "8", "9",
       "a", "b", "c", "d", "e", "f", "g", "h", "i", "j", "k", "l", "m",
       "n", "o", "p", "q", "r", "s", "t", "u", "v", "w", "x", "y", "z" >>

Lower(ch) ==
    LET k == {i \in 66..91 : Ascii[i - 32] = ch}
    IN  IF k = {} THEN ch ELSE Ascii[(CHOOSE i \in k : TRUE)]

\* The place of a character in the collation; unlisted characters come last.
Rank(ch) ==
    LET at == {i \in 1..Len(Collation) : Collation[i] = Lower(ch)}
    IN  IF at = {} THEN Len(Collation) + 1 ELSE CHOOSE i \in at : TRUE

IsDigit(ch) == HexVal(ch) >= 0 /\ HexVal(ch) <= 9

\* The length of the run of digits s starts with.
RECURSIVE DigitRun(_)
DigitRun(s) == IF s = <<>> \/ ~IsDigit(s[1]) THEN 0 ELSE 1 + DigitRun(Tail(s))

\* The number a run of digits spells.
RECURSIVE NumberOf(_)
NumberOf(s) ==
    IF s = <<>> THEN 0 ELSE 10 * NumberOf(SubSeq(s, 1, Len(s) - 1)) + HexVal(s[Len(s)])

\* a.localeCompare(b, undefined, {numeric: true, sensitivity: 'base'}) < 0
RECURSIVE LocaleLess(_, _)
LocaleLess(a, b) ==
    IF b = <<>> THEN FALSE
    ELSE IF a = <<>> THEN TRUE
    ELSE IF IsDigit(a[1]) /\ IsDigit(b[1])
    THEN LET na == DigitRun(a)
             nb == DigitRun(b)
             va == NumberOf(SubSeq(a, 1, na))
             vb == NumberOf(SubSeq(b, 1, nb))
         IN  IF va # vb THEN va < vb
             ELSE LocaleLess(SubSeq(a, na + 1, Len(a)), SubSeq(b, nb + 1, Len(b)))
    ELSE IF Rank(a[1]) # Rank(b[1]) THEN Rank(a[1]) < Rank(b[1])
    ELSE LocaleLess(Tail(a), Tail(b))

\* The comparison of items.sort by name alone
ItemBefore_ByName(x, y) == LocaleLess(x.name, y.name)

\* server.js:159-165, the comparison of items.sort: directories first
ItemBefore(x, y) ==
    IF x.is_dir # y.is_dir THEN x.is_dir ELSE LocaleLess(x.name, y.name)

\* items.sort(...) on a set of items
RECURSIVE SortItems(_)
SortItems(S) ==
    IF S = {} THEN <<>>
    ELSE LET first == CHOOSE x \in S : \A y \in S \ {x} : ~ItemBefore(y, x)
         IN  <<first>> \o SortItems(S \ {first})

\* fs.readdir(dir): the entries directly in dir
Children(f, dir) == {q \in DOMAIN f : q # <<Sep>> /\ q # dir /\ PathDirname(q) = dir}

\* server.js:147-156
Items(f, currentPath, subpath) ==
    {[name |-> PathBasename(q), is_dir |-> f[q].dir,
      path |-> PathJoinAny(subpath, PathBasename(q))] : q \in Children(f, currentPath)}

\* server.js:168-172
ParentPath(subpath) ==
    IF subpath = <<>> THEN JsonNull
    ELSE IF PosixDirname(subpath) = <<".">> THEN <<>>
    ELSE PosixDirname(subpath)

\* server.js:133-136, up to the first await
StartBrowse(c, subpath) ==
    /\ Free(c)
    /\ reqs' = [reqs EXCEPT ![c] =
            IF getSafePath(subpath) = Null
            THEN Answered(NewReq("browse", "", subpath, <<>>, 0, 0), 404, 0)
            ELSE NewReq("browse", "br_exists", subpath, <<>>, 0, 0)]
    /\ UNCHANGED <<fs, shareLinks, issued, now, probe>>

\* server.js:136-139
BrowseExists(c) ==
    /\ reqs[c].pc = "br_exists"
    /\ reqs' = [reqs EXCEPT ![c] =
            IF ~pathExists(fs, getSafePath(reqs[c].a))
            THEN Answered(@, 404, 0)
            ELSE [@ EXCEPT !.pc = "br_stat"]]
    /\ UNCHANGED <<fs, shareLinks, issued, now, probe>>

\* server.js:140-142: a stat outside any try
BrowseStat(c) ==
    /\ reqs[c].pc = "br_stat"
    /\ LET currentPath == getSafePath(reqs[c].a)
       IN  reqs' = [reqs EXCEPT ![c] =
                IF ~pathExists(fs, currentPath) THEN [@ EXCEPT !.pc = "hung"]
                ELSE IF ~isDirectory(fs, currentPath) THEN Answered(@, 400, 0)
                ELSE [@ EXCEPT !.pc = "br_read"]]
    /\ UNCHANGED <<fs, shareLinks, issued, now, probe>>

\* server.js:145-182
BrowseRead(c) ==
    /\ reqs[c].pc = "br_read"
    /\ LET currentPath == getSafePath(reqs[c].a)
       IN  reqs' = [reqs EXCEPT ![c] =
                IF ~pathExists(fs, currentPath) \/ ~isDirectory(fs, currentPath)
                THEN Answered(@, 500, 0)
                ELSE [Answered(@, 200, 0) EXCEPT !.listing =
                         [current_path |-> reqs[c].a,
                          parent_path |-> ParentPath(reqs[c].a),
                          items |-> SortItems(Items(fs, currentPath, reqs[c].a))]]]
    /\ UNCHANGED <<fs, shareLinks, issued, now, probe>>

----------------------------------------------------------------------------
(* GET /download/:filepath, server.js:203-244 *)

\* server.js:204-209, up to the first await
StartDownload(c, filepath) ==
    /\ Free(c)
    /\ reqs' = [reqs EXCEPT ![c] =
            IF getSafePath(filepath) = Null
            THEN Answered(NewReq("download", "", filepath, <<>>, 0, 0), 400, 0)
            ELSE NewReq("download", "dl_exists", filepath, <<>>, 0, 0)]
    /\ UNCHANGED <<fs, shareLinks, issued, now, probe>>

\* server.js:213-215
DownloadExists(c) ==
    /\ reqs[c].pc = "dl_exists"
    /\ reqs' = [reqs EXCEPT ![c] =
            IF ~pathExists(fs, getSafePath(reqs[c].a))
            THEN Answered(@, 404, 0)
            ELSE [@ EXCEPT !.pc = "dl_stat"]]
    /\ UNCHANGED <<fs, shareLinks, issued, now, probe>>

\* server.js:216-219 and the catch of 239-243
DownloadStat(c) ==
    /\ reqs[c].pc = "dl_stat"
    /\ LET safeFullPath == getSafePath(reqs[c].a)
       IN  reqs' = [reqs EXCEPT ![c] =
                IF ~pathExists(fs, safeFullPath) THEN Answered(@, 500, 0)
                ELSE IF ~isFile(fs, safeFullPath) THEN Answered(@, 400, 0)
                ELSE [@ EXCEPT !.pc = "dl_send"]]
    /\ UNCHANGED <<fs, shareLinks, issued, now, probe>>

\* server.js:221-238: res.download opens the file and streams it
DownloadSend(c) ==
    /\ reqs[c].pc = "dl_send"
    /\ LET safeFullPath == getSafePath(reqs[c].a)
       IN  reqs' = [reqs EXCEPT ![c] =
                IF pathExists(fs, safeFullPath) /\ isFile(fs, safeFullPath)
                THEN Answered(@, 200, fs[safeFullPath].data)
                ELSE Answered(@, 500, 0)]
    /\ UNCHANGED <<fs, shareLinks, issued, now, probe>>

----------------------------------------------------------------------------
(* The server *)

Clients == DOMAIN reqs

\* The tree has room for n more entries: clients stop sending requests that
\* add entries to a full tree.
Room(maxEntries, n) == Cardinality(Entries(fs)) + n <= maxEntries

\* How far below the root the suffix p points.
Depth(p) ==
    LET segs == Segments(PathResolve(RESOLVED_UPLOAD_FOLDER_ROOT, p))
    IN  IF Len(segs) > 1 THEN Len(segs) - 1 ELSE 0

\* Every request a client can send, its inputs drawn from the sets of I, and
\* every step of a request in flight.
Requests(I) ==
    \/ \E c \in Clients, p \in I.deletePaths : StartDelete(c, p)
    \/ \E c \in Clients : DeleteExists(c)
    \/ \E c \in Clients : DeleteRemove(c)
    \/ \E c \in Clients, p \in I.sharePaths :
           Len(issued) < I.maxShares /\ StartShare(c, p)
    \/ \E c \in Clients : ShareExists(c)
    \/ \E c \in Clients : ShareStat(c)
    \/ \E c \in Clients, i \in 0..Len(issued) : StartAccess(c, i)
    \/ \E c \in Clients : AccessExists(c)
    \/ \E c \in Clients : AccessStat(c)
    \/ \E c \in Clients : AccessSend(c)
    \/ \E c \in Clients, s \in I.moveSources, d \in I.moveDests : StartMove(c, s, d)
    \/ \E c \in Clients : MoveSourceExists(c)
    \/ \E c \in Clients : MoveDestExists(c)
    \/ \E c \in Clients : MoveDestStat(c)
    \/ \E c \in Clients : MoveSourceStat(c)
    \/ \E c \in Clients : MoveFinalExists(c)
    \/ \E c \in Clients : MoveRename(c)
    \/ \E c \in Clients, p \in I.dirPaths, n \in I.dirNames :
           Room(I.maxEntries, 1) /\ StartMkdir(c, p, n)
    \/ \E c \in Clients : MkdirParentExists(c)
    \/ \E c \in Clients : MkdirParentStat(c)
    \/ \E c \in Clients : MkdirExists(c)
    \/ \E c \in Clients : MkdirEnsure(c)
    \/ \E c \in Clients, p \in I.savePaths, d \in I.saveContents : StartSave(c, p, d)
    \/ \E c \in Clients : SaveExists(c)
    \/ \E c \in Clients : SaveStat(c)
    \/ \E c \in Clients : SaveWrite(c)
    \/ \E c \in Clients, p \in I.dirPaths, n \in I.uploadNames, d \in I.uploadContents :
           Room(I.maxEntries, Depth(p) + 1) /\ StartUpload(c, p, n, d)
    \/ \E c \in Clients : UploadEnsureDir(c)
    \/ \E c \in Clients : UploadFilename(c)
    \/ \E c \in Clients : UploadWrite(c)
    \/ \E c \in Clients, p \in I.browsePaths : StartBrowse(c, p)
    \/ \E c \in Clients : BrowseExists(c)
    \/ \E c \in Clients : BrowseStat(c)
    \/ \E c \in Clients : BrowseRead(c)
    \/ \E c \in Clients, p \in I.downloadPaths : StartDownload(c, p)
    \/ \E c \in Clients : DownloadExists(c)
    \/ \E c \in Clients : DownloadStat(c)
    \/ \E c \in Clients : DownloadSend(c)

FileInputs ==
    [deletePaths |-> {<<>>, <<".">>, <<"x">>, <<"x", "/", "y">>, <<".", ".">>},
     sharePaths |-> {<<>>, <<"x">>, <<".", ".">>},
     moveSources |-> {<<".">>, <<"x">>, <<"x", "/", "y">>, <<".", ".">>},
     moveDests |-> {<<>>, <<"x">>, <<"x", "/", "y">>, <<".", ".">>},
     dirPaths |-> {<<>>, <<"x">>, <<"x", "/", "y">>, <<".", ".">>},
     dirNames |-> {<<>>, <<"x">>, <<"y">>, <<".", ".">>},
     savePaths |-> {<<>>, <<"x">>, <<"x", "/", "y">>, <<".", ".">>},
     saveContents |-> {2},
     uploadNames |-> {<<"x">>, <<"y">>},
     uploadContents |-> {1},
     browsePaths |-> {<<>>, <<".">>, <<"x">>, <<"x", "/", "y">>, <<".", ".">>},
     downloadPaths |-> {<<"x">>, <<"x", "/", "y">>, <<".", ".">>},
     maxEntries |-> MaxEntries,
     maxShares |-> 1]

ShareInputs ==
    [deletePaths |-> {<<"x">>},
     sharePaths |-> {<<"x">>, <<"%", "7", "8">>, <<".", ".">>},
     moveSources |-> {<<"x">>},
     moveDests |-> {<<"d">>},
     dirPaths |-> {<<>>},
     dirNames |-> {<<"x">>, <<"d">>},
     savePaths |-> {<<"x">>},
     saveContents |-> {2},
     uploadNames |-> {<<"x">>},
     uploadContents |-> {1},
     browsePaths |-> {<<>>},
     downloadPaths |-> {<<"x">>},
     maxEntries |-> MaxShareEntries,
     maxShares |-> MaxShares]

\* Uploads of one name with different contents, little else.
UploadInputs ==
    [deletePaths |-> {<<"x">>},
     sharePaths |-> {<<"x">>},
     moveSources |-> {<<"x">>},
     moveDests |-> {<<"d">>},
     dirPaths |-> {<<>>},
     dirNames |-> {<<"d">>},
     savePaths |-> {<<"x">>},
     saveContents |-> {3},
     uploadNames |-> {<<"x">>},
     uploadContents |-> {1, 2},
     browsePaths |-> {<<>>},
     downloadPaths |-> {<<"x">>},
     maxEntries |-> MaxEntries,
     maxShares |-> 1]

\* Two clients at work on the same few paths.
RaceInputs ==
    [deletePaths |-> {<<"x">>},
     sharePaths |-> {<<"x">>},
     moveSources |-> {<<"x">>},
     moveDests |-> {<<"d">>},
     dirPaths |-> {<<>>},
     dirNames |-> {<<"d">>},
     savePaths |-> {<<"x">>},
     saveContents |-> {2},
     uploadNames |-> {<<"x">>},
     uploadContents |-> {1},
     browsePaths |-> {<<>>},
     downloadPaths |-> {<<"x">>},
     maxEntries |-> MaxRaceEntries,
     maxShares |-> 1]

Next ==
    \/ TickMs
    \/ Requests(FileInputs)

Spec == Init /\ [][Next]_vars

NextShare ==
    \/ TickMs
    \/ TickWindow
    \/ Requests(ShareInputs)

SpecShare == Init /\ [][NextShare]_vars

NextUpload ==
    \/ TickMs
    \/ Requests(UploadInputs)

SpecUpload == Init /\ [][NextUpload]_vars

\* Two connections: the handlers of two requests interleave at their awaits.
InitRace ==
    /\ fs = (<<Sep>> :> Dir) @@ (RESOLVED_UPLOAD_FOLDER_ROOT :> Dir)
    /\ shareLinks = <<>>
    /\ issued = <<>>
    /\ now = 0
    /\ reqs = [c \in {1, 2} |-> Idle]
    /\ probe = NoProbe

NextRace == Requests(RaceInputs)

SpecRace == InitRace /\ [][NextRace]_vars

----------------------------------------------------------------------------
(* Properties *)

Root == RESOLVED_UPLOAD_FOLDER_ROOT

\* Client c sends a request in this step: its connection was free and now
\* carries the request reqs'[c]. A share lookup sent again with the answer
\* it had before shows in the registry alone.
Sends(c) ==
    /\ reqs[c].pc \in {"idle", "done"}
    /\ reqs'[c].op # "none"
    /\ \/ reqs'[c] # reqs[c]
       \/ reqs' = reqs /\ reqs[c].op = "access" /\ shareLinks' # shareLinks

\* The request in flight of client c takes a step.
Steps(c) == reqs[c].pc \notin {"idle", "done", "hung"} /\ reqs'[c] # reqs[c]

\* The request of client c is answered in this step.
AnsweredNow(c) == (Sends(c) \/ Steps(c)) /\ reqs'[c].pc = "done"

\* The age of share link i, from the history of creation times.
Age(i) == now - issued[i]

\* C3: the storage root is a directory in every reachable state, and a
\* delete or a move whose (source) path resolves to the root is refused.
C3_RootStays ==
    /\ Root \in DOMAIN fs
    /\ fs[Root].dir
    /\ \A c \in Clients :
           (/\ reqs[c].pc = "done"
            /\ reqs[c].op \in {"delete", "move"}
            /\ getSafePath(reqs[c].a) = Root) => reqs[c].status >= 400

\* C3 witness: the root holds a directory x, and a move of the root into x
\* was refused.
C3_Witness ==
    \E c \in Clients :
        /\ reqs[c].pc = "done" /\ reqs[c].op = "move"
        /\ reqs[c].a = <<".">> /\ reqs[c].b = <<"x">>
        /\ reqs[c].status = 400
        /\ <<"/", "r", "/", "x">> \in DOMAIN fs
        /\ fs[<<"/", "r", "/", "x">>].dir

\* C4 as claimed: a delete on any path that designates the root is answered
\* 403 and leaves the tree unchanged.
C4_AsClaimed ==
    [][\A c \in Clients :
           (/\ AnsweredNow(c)
            /\ reqs'[c].op = "delete"
            /\ getSafePath(reqs'[c].a) = Root) =>
               (reqs'[c].status = 403 /\ fs' = fs)]_vars

\* C4 as amended: a delete on a non-empty path that resolves to the root is
\* answered 403, a delete on the empty path is answered 400, and both leave
\* the tree unchanged.
C4_DeleteRoot ==
    [][\A c \in Clients :
           (/\ AnsweredNow(c)
            /\ reqs'[c].op = "delete"
            /\ getSafePath(reqs'[c].a) = Root) =>
               /\ reqs'[c].status = (IF reqs'[c].a = <<>> THEN 400 ELSE 403)
               /\ Sends(c)
               /\ fs' = fs]_vars

\* C4 witness: a delete of "." was answered 403 while the root held entries.
C4_Witness ==
    \E c \in Clients :
        /\ reqs[c].pc = "done" /\ reqs[c].op = "delete"
        /\ reqs[c].a = <<".">>
        /\ reqs[c].status = 403
        /\ Entries(fs) # {}

\* A path the request r hands to getSafePath is rejected.
RejectedPath(r) ==
    /\ r.op \in {"upload", "mkdir", "delete", "move", "save", "share"}
    /\ \/ getSafePath(r.a) = Null
       \/ r.op = "move" /\ getSafePath(r.b) = Null

\* C5: an upload, mkdir, delete, move, save or share request with a path
\* that getSafePath rejects is answered with an error at once, and the file
\* tree and the registry are as they were before it.
C5_RejectedChangesNothing ==
    [][\A c \in Clients :
           (Sends(c) /\ RejectedPath(reqs'[c])) =>
               /\ reqs'[c].pc = "done"
               /\ reqs'[c].status >= 400
               /\ fs' = fs
               /\ shareLinks' = shareLinks
               /\ issued' = issued]_vars

\* C5 witness: an upload into ".." was refused while the root held entries.
C5_Witness ==
    \E c \in Clients :
        /\ reqs[c].pc = "done" /\ reqs[c].op = "upload"
        /\ reqs[c].a = <<".", ".">>
        /\ reqs[c].status = 400
        /\ Entries(fs) # {}

----------------------------------------------------------------------------
(* Properties of the share links *)

\* Client c sends GET /share/:shareId in this step; the lookup of lines
\* 380-409 is part of that step.
Lookup(c) == Sends(c) /\ reqs'[c].op = "access"

\* The file the access of client c is about, from the path it read at lookup.
TargetOf(r) == getSafePath(r.loc)

IsRegularFile(f, p) == p \in DOMAIN f /\ ~f[p].dir

\* Share link i was issued and is older than the expiry window.
Outdated(i) == i \in 1..Len(issued) /\ Age(i) > ExpiryMs

\* An access within the window to a link whose target is a regular file goes
\* through every check and answers 200 with the content of the file; no
\* other answer carries content.
ServedWithin(c) ==
    /\ (/\ Lookup(c)
        /\ reqs'[c].id \in DOMAIN shareLinks
        /\ Age(reqs'[c].id) <= ExpiryMs
        /\ IsRegularFile(fs, getSafePath(shareLinks[reqs'[c].id].path)))
           => reqs'[c].pc = "sa_exists"
    /\ (/\ Steps(c)
        /\ reqs[c].op = "access"
        /\ IsRegularFile(fs, TargetOf(reqs[c])))
           => /\ reqs[c].pc = "sa_exists" => reqs'[c].pc = "sa_stat"
              /\ reqs[c].pc = "sa_stat" => reqs'[c].pc = "sa_send"
              /\ reqs[c].pc = "sa_send" =>
                     /\ reqs'[c].pc = "done"
                     /\ reqs'[c].status = 200
                     /\ reqs'[c].body = fs[TargetOf(reqs[c])].data
    /\ (AnsweredNow(c) /\ reqs'[c].status # 200) => reqs'[c].body = 0

\* C2 as claimed: an access within the window returns the content of the
\* file, and every access to a link older than one hour is answered 410 and
\* returns no content.
C2_AsClaimed ==
    [][\A c \in Clients :
           /\ ServedWithin(c)
           /\ (Lookup(c) /\ Outdated(reqs'[c].id)) =>
                  /\ reqs'[c].pc = "done"
                  /\ reqs'[c].status = 410
                  /\ reqs'[c].body = 0]_vars

\* C2 as amended: an access within the window returns the content of the
\* file; an access to a link older than one hour returns no content and is
\* answered 410 when the entry is still in the registry, 404 once a lookup
\* has removed it.
C2_ShareServed ==
    [][\A c \in Clients :
           /\ ServedWithin(c)
           /\ (Lookup(c) /\ Outdated(reqs'[c].id)) =>
                  /\ reqs'[c].pc = "done"
                  /\ reqs'[c].status =
                         (IF reqs'[c].id \in DOMAIN shareLinks THEN 410 ELSE 404)
                  /\ reqs'[c].body = 0]_vars

\* C2 witness: a link older than one hour was answered 410 without content
\* while its file is still there.
C2_Witness ==
    \E c \in Clients :
        /\ reqs[c].pc = "done" /\ reqs[c].op = "access"
        /\ reqs[c].status = 410 /\ reqs[c].body = 0
        /\ Outdated(reqs[c].id)
        /\ IsRegularFile(fs, <<"/", "r", "/", "x">>)

\* No entry of the registry r is older than the expiry window at time t.
NoneExpired(r, t) == \A i \in DOMAIN r : t - r[i].created_at <= ExpiryMs

C8_NoSlidingExpiry ==
    [][/\ \A i \in DOMAIN shareLinks \cap DOMAIN shareLinks' :
              shareLinks'[i] = shareLinks[i]
       /\ \A i \in DOMAIN shareLinks : shareLinks[i].created_at = issued[i]
       /\ \A c \in Clients :
              /\ (/\ Lookup(c)
                  /\ reqs'[c].id \in DOMAIN shareLinks
                  /\ Age(reqs'[c].id) <= ExpiryMs
                  /\ IsRegularFile(fs, getSafePath(shareLinks[reqs'[c].id].path)))
                     => shareLinks' = shareLinks
              /\ (/\ Steps(c)
                  /\ reqs[c].op = "access"
                  /\ IsRegularFile(fs, TargetOf(reqs[c])))
                     => shareLinks' = shareLinks
              /\ (Lookup(c) /\ reqs'[c].pc # "done")
                     => Age(reqs'[c].id) <= ExpiryMs]_vars

\* C8 witness: a link was served exactly one hour after its creation and is
\* still in the registry with its creation time.
C8_Witness ==
    \E c \in Clients :
        /\ reqs[c].pc = "done" /\ reqs[c].op = "access" /\ reqs[c].status = 200
        /\ reqs[c].id \in DOMAIN shareLinks
        /\ Age(reqs[c].id) = ExpiryMs
        /\ shareLinks[reqs[c].id].created_at = issued[reqs[c].id]

\* C9: a lookup of an id in the registry whose age is greater than one hour
\* deletes that entry and answers 410, whatever became of the file; with an
\* age of at most one hour the entry stays and the access goes on.
C9_ExpiredGone ==
    [][\A c \in Clients :
           (Lookup(c) /\ reqs'[c].id \in DOMAIN shareLinks) =>
               LET id == reqs'[c].id
               IN  IF now - shareLinks[id].created_at > ExpiryMs
                   THEN /\ reqs'[c].pc = "done"
                        /\ reqs'[c].status = 410
                        /\ DOMAIN shareLinks' = DOMAIN shareLinks \ {id}
                        /\ \A i \in DOMAIN shareLinks' : shareLinks'[i] = shareLinks[i]
                   ELSE /\ reqs'[c].pc = "sa_exists"
                        /\ id \in DOMAIN shareLinks']_vars

\* C9 witness: an expired link whose file is gone was answered 410.
C9_Witness ==
    \E c \in Clients :
        /\ reqs[c].pc = "done" /\ reqs[c].op = "access"
        /\ reqs[c].status = 410
        /\ Outdated(reqs[c].id)
        /\ <<"/", "r", "/", "x">> \notin DOMAIN fs

\* C10: an access within the window whose target is missing or is not a
\* regular file removes the entry and answers 404; an id that has left the
\* registry never returns to it, and every access to it answers 404.
C10_StaleTarget ==
    [][/\ \A c \in Clients :
              /\ reqs[c].pc = "sa_stat" => TargetOf(reqs[c]) \in DOMAIN fs
              /\ (Steps(c) /\ reqs[c].op = "access") =>
                     LET t == TargetOf(reqs[c])
                         gone == /\ reqs'[c].pc = "done"
                                 /\ reqs'[c].status = 404
                                 /\ reqs'[c].body = 0
                                 /\ reqs[c].id \notin DOMAIN shareLinks'
                     IN  /\ (reqs[c].pc = "sa_exists" /\ t \notin DOMAIN fs) => gone
                         /\ (reqs[c].pc = "sa_exists" /\ t \in DOMAIN fs /\ fs[t].dir)
                                => reqs'[c].pc = "sa_stat"
                         /\ (reqs[c].pc = "sa_stat" /\ t \in DOMAIN fs /\ fs[t].dir) => gone
              /\ (Lookup(c) /\ reqs'[c].id \notin DOMAIN shareLinks) =>
                     /\ reqs'[c].pc = "done"
                     /\ reqs'[c].status = 404
                     /\ reqs'[c].body = 0
       /\ \A i \in 1..Len(issued) :
              i \notin DOMAIN shareLinks => i \notin DOMAIN shareLinks']_vars

\* C10 witness: a link left the registry within its window, a file is at its
\* path again, and an access to it was answered 404.
C10_Witness ==
    \E c \in Clients :
        /\ reqs[c].pc = "done" /\ reqs[c].op = "access"
        /\ reqs[c].status = 404
        /\ reqs[c].id \in 1..Len(issued)
        /\ reqs[c].loc = <<>>
        /\ Age(reqs[c].id) <= ExpiryMs
        /\ reqs[c].id \notin DOMAIN shareLinks
        /\ IsRegularFile(fs, <<"/", "r", "/", "x">>)

----------------------------------------------------------------------------
(* Properties of the file operations *)

\* C11: a share request adds an entry only in its last step and only when
\* the target is a regular file then: exactly one entry, [path, created_at =
\* now], under an id never issued before, all other entries unchanged; with
\* a rejected path (400), a missing target (404) or a directory (400) the
\* registry is unchanged. No other step adds an entry.
C11_ShareCreate ==
    [][/\ \A c \in Clients :
              /\ (Sends(c) /\ reqs'[c].op = "share") =>
                     /\ shareLinks' = shareLinks
                     /\ issued' = issued
                     /\ getSafePath(reqs'[c].a) = Null =>
                            reqs'[c].pc = "done" /\ reqs'[c].status = 400
              /\ (Steps(c) /\ reqs[c].op = "share") =>
                     LET t == getSafePath(reqs[c].a)
                         id == reqs'[c].id
                     IN  IF IsRegularFile(fs, t)
                         THEN /\ reqs[c].pc = "sh_exists" =>
                                     reqs'[c].pc = "sh_stat" /\ shareLinks' = shareLinks
                              /\ reqs[c].pc = "sh_stat" =>
                                     /\ reqs'[c].pc = "done"
                                     /\ reqs'[c].status = 200
                                     /\ id \notin 1..Len(issued)
                                     /\ id \notin DOMAIN shareLinks
                                     /\ DOMAIN shareLinks' = DOMAIN shareLinks \cup {id}
                                     /\ shareLinks'[id] = [path |-> reqs[c].a, created_at |-> now]
                                     /\ \A i \in DOMAIN shareLinks : shareLinks'[i] = shareLinks[i]
                         ELSE /\ shareLinks' = shareLinks
                              /\ reqs'[c].status # 200
                              /\ (reqs[c].pc = "sh_exists" /\ t \notin DOMAIN fs) =>
                                     reqs'[c].pc = "done" /\ reqs'[c].status = 404
                              /\ (reqs[c].pc = "sh_stat" /\ t \in DOMAIN fs) =>
                                     reqs'[c].pc = "done" /\ reqs'[c].status = 400
       /\ DOMAIN shareLinks' \ DOMAIN shareLinks # {} =>
              \E c \in Clients :
                  /\ reqs[c].op = "share" /\ reqs[c].pc = "sh_stat"
                  /\ IsRegularFile(fs, getSafePath(reqs[c].a))]_vars

\* C11 witness: a second link was created next to the first one, which is
\* as it was.
C11_Witness ==
    \E c \in Clients :
        /\ reqs[c].pc = "done" /\ reqs[c].op = "share"
        /\ reqs[c].status = 200
        /\ reqs[c].id = 2
        /\ DOMAIN shareLinks = {1, 2}
        /\ shareLinks[1] = [path |-> <<"x">>, created_at |-> issued[1]]
        /\ shareLinks[2] = [path |-> <<"x">>, created_at |-> now]
        /\ issued[1] < now

\* C12: a move of a directory S into a directory that is S or lies below S
\* is answered 400 and leaves the file tree unchanged.
C12_MoveIntoItself ==
    [][\A c \in Clients :
           (AnsweredNow(c) /\ reqs'[c].op = "move") =>
               LET S == getSafePath(reqs'[c].a)
                   D == getSafePath(reqs'[c].b)
               IN  (/\ reqs'[c].a # <<>>
                    /\ S # Null /\ D # Null
                    /\ S \in DOMAIN fs /\ fs[S].dir
                    /\ D \in DOMAIN fs /\ fs[D].dir
                    /\ Descends(D, S)) =>
                       reqs'[c].status = 400 /\ fs' = fs]_vars

\* C12 witness: a move of the directory x into its subdirectory x/y was
\* answered 400, and both are still there.
C12_Witness ==
    \E c \in Clients :
        /\ reqs[c].pc = "done" /\ reqs[c].op = "move"
        /\ reqs[c].a = <<"x">> /\ reqs[c].b = <<"x", "/", "y">>
        /\ reqs[c].status = 400
        /\ <<"/", "r", "/", "x", "/", "y">> \in DOMAIN fs
        /\ fs[<<"/", "r", "/", "x", "/", "y">>].dir
        /\ fs[<<"/", "r", "/", "x">>].dir

\* Where the entry q of the subtree of S is after a move of S to F.
MovedTo(q, S, F) == F \o SubSeq(q, Len(S) + 1, Len(q))

Stores(c) ==
    /\ reqs[c].op = "upload" /\ reqs[c].pc = "up_write"
    /\ reqs'[c].pc = "done" /\ reqs'[c].status = 200

\* C14 as claimed: an upload whose sanitized name exists in the destination
\* directory is stored under a name no entry of the directory has, and every
\* file that existed before an upload exists after it with its content.
C14_AsClaimed ==
    [][\A c \in Clients :
           Stores(c) =>
               LET dir == UploadDir(reqs[c].a)
                   stored == PathJoin(dir, reqs[c].loc)
               IN  /\ pathExists(fs, PathJoin(dir, ReplaceIllegal(reqs[c].b))) =>
                          ~pathExists(fs, stored)
                   /\ \A q \in DOMAIN fs :
                          ~fs[q].dir => q \in DOMAIN fs' /\ fs'[q] = fs[q]]_vars

\* Client c's save request is sent or takes a step.
SaveActs(c) == (Sends(c) \/ Steps(c)) /\ reqs'[c].op = "save"

\* C15 as claimed: a save is answered 404 when its target does not exist and
\* 400 when it is not a regular file, and then changes nothing; a save
\* answered 200 replaces the content of exactly its target, a regular file
\* before it; no save makes a file exist where none was.
C15_AsClaimed ==
    [][\A c \in Clients :
           SaveActs(c) =>
               LET t == getSafePath(reqs'[c].a)
               IN  /\ (AnsweredNow(c) /\ reqs'[c].status # 200) => fs' = fs
                   /\ (AnsweredNow(c) /\ t # Null /\ t \notin DOMAIN fs) =>
                          reqs'[c].status = 404
                   /\ (AnsweredNow(c) /\ t # Null /\ t \in DOMAIN fs /\ fs[t].dir) =>
                          reqs'[c].status = 400
                   /\ (AnsweredNow(c) /\ reqs'[c].status = 200) =>
                          /\ IsRegularFile(fs, t)
                          /\ fs' = [fs EXCEPT ![t] = File(reqs'[c].data)]
                   /\ fs' # fs => AnsweredNow(c) /\ reqs'[c].status = 200
                   /\ DOMAIN fs' \subseteq DOMAIN fs]_vars

\* C15 as amended: the existence check answers 404 for a missing target, the
\* stat that follows 400 for a directory, both without a change; only the
\* write changes the tree: it replaces the content of the target when that
\* is a regular file then, and nothing else; when the target has been
\* removed since the stat, it creates the file anew in a directory that is
\* still there.
C15_SaveEdits ==
    [][\A c \in Clients :
           SaveActs(c) =>
               LET t == getSafePath(reqs'[c].a)
                   atWrite == Steps(c) /\ reqs[c].pc = "sv_write"
               IN  /\ Sends(c) =>
                          /\ fs' = fs
                          /\ (reqs'[c].a = <<>> \/ t = Null) =>
                                 reqs'[c].pc = "done" /\ reqs'[c].status = 400
                   /\ (Steps(c) /\ reqs[c].pc = "sv_exists") =>
                          /\ fs' = fs
                          /\ t \notin DOMAIN fs =>
                                 reqs'[c].pc = "done" /\ reqs'[c].status = 404
                          /\ t \in DOMAIN fs => reqs'[c].pc = "sv_stat"
                   /\ (Steps(c) /\ reqs[c].pc = "sv_stat") =>
                          /\ fs' = fs
                          /\ (t \in DOMAIN fs /\ fs[t].dir) =>
                                 reqs'[c].pc = "done" /\ reqs'[c].status = 400
                          /\ IsRegularFile(fs, t) => reqs'[c].pc = "sv_write"
                   /\ atWrite =>
                          /\ reqs'[c].pc = "done"
                          /\ IsRegularFile(fs, t) =>
                                 /\ reqs'[c].status = 200
                                 /\ fs' = [fs EXCEPT ![t] = File(reqs[c].data)]
                          /\ t \notin DOMAIN fs =>
                                 IF PathDirname(t) \in DOMAIN fs /\ fs[PathDirname(t)].dir
                                 THEN /\ reqs'[c].status = 200
                                      /\ fs' = fs @@ (t :> File(reqs[c].data))
                                 ELSE reqs'[c].status = 500 /\ fs' = fs
                          /\ (t \in DOMAIN fs /\ fs[t].dir) =>
                                 reqs'[c].status = 500 /\ fs' = fs
                   /\ fs' # fs => atWrite]_vars

\* C15 witness: a save has passed its checks and is about to write, and its
\* target is gone.
C15_Witness ==
    \E c \in Clients :
        /\ reqs[c].op = "save" /\ reqs[c].pc = "sv_write"
        /\ reqs[c].a = <<"x">>
        /\ <<"/", "r", "/", "x">> \notin DOMAIN fs

\* C16: a delete of a path inside the root, the root excepted, is answered
\* 404 and changes nothing when no entry is there; otherwise it removes the
\* entry and everything below it and nothing else. No step of it changes
\* the registry.
C16_Delete ==
    [][\A c \in Clients :
           ((Sends(c) \/ Steps(c)) /\ reqs'[c].op = "delete") =>
               LET t == getSafePath(reqs'[c].a)
               IN  (reqs'[c].a # <<>> /\ t # Null /\ t # Root) =>
                       /\ shareLinks' = shareLinks
                       /\ ~AnsweredNow(c) => fs' = fs
                       /\ AnsweredNow(c) =>
                              IF t \notin DOMAIN fs
                              THEN reqs'[c].status = 404 /\ fs' = fs
                              ELSE /\ reqs'[c].status = 200
                                   /\ DOMAIN fs' = {q \in DOMAIN fs : ~Descends(q, t)}
                                   /\ \A q \in DOMAIN fs' : fs'[q] = fs[q]]_vars

\* C16 witness: the shared file x was deleted; the entry y beside it and the
\* share link to x are still there.
C16_Witness ==
    \E c \in Clients :
        /\ reqs[c].pc = "done" /\ reqs[c].op = "delete"
        /\ reqs[c].a = <<"x">> /\ reqs[c].status = 200
        /\ <<"/", "r", "/", "x">> \notin DOMAIN fs
        /\ <<"/", "r", "/", "y">> \in DOMAIN fs
        /\ 1 \in DOMAIN shareLinks
        /\ shareLinks[1].path = <<"x">>

\* C17 as the specification states it: a browse, upload, download, mkdir,
\* delete, share, move or save request whose path getSafePath rejects is
\* answered 400, and a request answered 404 had paths that resolve inside
\* the root.
C17_AsClaimed ==
    [][\A c \in Clients :
           (/\ AnsweredNow(c)
            /\ reqs'[c].op \in {"browse", "upload", "download", "mkdir",
                                "delete", "share", "move", "save"}
            /\ \/ getSafePath(reqs'[c].a) = Null
               \/ reqs'[c].op = "move" /\ getSafePath(reqs'[c].b) = Null) =>
               /\ reqs'[c].status = 400
               /\ reqs'[c].status # 404]_vars

\* C18 as the specification states it: a mkdir with the name "." or ".." is
\* answered 400 and creates nothing; with any other name and an existing
\* directory as parent it is answered 409 without a change when an entry is
\* at parent/sanitizedName, and otherwise it creates that one directory.
C18_AsClaimed ==
    [][\A c \in Clients :
           (AnsweredNow(c) /\ reqs'[c].op = "mkdir") =>
               LET dir_name == reqs'[c].b
                   parentDir == getSafePath(reqs'[c].a)
               IN  IF dir_name \in {<<".">>, <<".", ".">>}
                   THEN reqs'[c].status = 400 /\ fs' = fs
                   ELSE (/\ dir_name # <<>>
                         /\ parentDir # Null
                         /\ pathExists(fs, parentDir)
                         /\ isDirectory(fs, parentDir)) =>
                            LET newDirPath == PathJoin(parentDir, SafeDirName(dir_name))
                            IN  IF pathExists(fs, newDirPath)
                                THEN reqs'[c].status = 409 /\ fs' = fs
                                ELSE /\ reqs'[c].status = 200
                                     /\ fs' = fs @@ (newDirPath :> Dir)]_vars

\* C19 as the specification states it: no request is left without a
\* response, whatever the other connection does meanwhile. A request at
\* "hung" has none and gets none: its handler threw outside every try, and
\* nothing runs for it any more.
C19_AsClaimed ==
    \A c \in Clients : reqs[c].pc # "hung"

\* The path of the entry q relative to the root, "" for the root itself.
BelowRoot(q) == SubSeq(q, Len(Root) + 2, Len(q))

\* C20: a browse is answered 404 when the path resolves to no entry and 400
\* when it resolves to a file. When it is answered 200 the path resolves to
\* a directory and the items are the entries directly in it, one item each
\* with its name, its kind and, for a path written as the root-relative path
\* of the directory, its own root-relative path, with no file before a
\* directory; parent_path is null exactly for the empty path, and otherwise
\* the root-relative path of the parent, "" for a directory directly in the
\* root. No step of a browse changes the file tree or the registry.
C20_List ==
    [][\A c \in Clients :
           ((Sends(c) \/ Steps(c)) /\ reqs'[c].op = "browse") =>
               /\ fs' = fs
               /\ shareLinks' = shareLinks
               /\ issued' = issued
               /\ AnsweredNow(c) =>
                      LET subpath == reqs'[c].a
                          t == getSafePath(subpath)
                          L == reqs'[c].listing
                          n == Len(L.items)
                          canonical == t # Null /\ subpath = BelowRoot(t)
                      IN  /\ (t # Null /\ ~pathExists(fs, t)) => reqs'[c].status = 404
                          /\ (t # Null /\ pathExists(fs, t) /\ ~isDirectory(fs, t)) =>
                                 reqs'[c].status = 400
                          /\ reqs'[c].status = 200 =>
                                 /\ t # Null /\ pathExists(fs, t) /\ isDirectory(fs, t)
                                 /\ L.current_path = subpath
                                 /\ n = Cardinality(Children(fs, t))
                                 /\ \A q \in Children(fs, t) : \E i \in 1..n :
                                        /\ L.items[i].name = PathBasename(q)
                                        /\ L.items[i].is_dir = fs[q].dir
                                        /\ canonical => L.items[i].path = BelowRoot(q)
                                 /\ \A i, j \in 1..n :
                                        (i < j) => ~(~L.items[i].is_dir /\ L.items[j].is_dir)
                                 /\ (L.parent_path = JsonNull) <=> (subpath = <<>>)
                                 /\ (canonical /\ subpath # <<>>) =>
                                        L.parent_path = BelowRoot(PathDirname(t))]_vars

\* C20 witness: the listing of x, which holds the file x and the directory
\* y: y comes first, and the parent is the root.
C20_Witness ==
    \E c \in Clients :
        /\ reqs[c].pc = "done" /\ reqs[c].op = "browse" /\ reqs[c].status = 200
        /\ reqs[c].listing =
               [current_path |-> <<"x">>,
                parent_path |-> <<>>,
                items |-> <<[name |-> <<"y">>, is_dir |-> TRUE, path |-> <<"x", "/", "y">>],
                            [name |-> <<"x">>, is_dir |-> FALSE, path |-> <<"x", "/", "x">>]>>]

----------------------------------------------------------------------------
(* Properties of the registry and of requests that interleave *)

\* C21: the registry starts empty. A step changes it only when it is the
\* step of a share request that adds one entry for the path of the request,
\* with the time of the step, or a step of a share lookup that removes
\* entries and leaves the others as they are; the clock does not move in
\* such a step. So the passage of time and every step of a browse, upload,
\* download, mkdir, delete, move or save request leave the registry as it
\* is, and an expired entry stays until a lookup removes it.
C21_RegistryFrame ==
    /\ shareLinks = <<>>
    /\ [][(shareLinks' # shareLinks) =>
              /\ now' = now
              /\ \E c \in Clients :
                     /\ Sends(c) \/ Steps(c)
                     /\ \/ /\ reqs'[c].op = "share"
                           /\ AnsweredNow(c)
                           /\ reqs'[c].status = 200
                           /\ reqs'[c].id \notin DOMAIN shareLinks
                           /\ shareLinks' = shareLinks @@
                                  (reqs'[c].id :> [path |-> reqs'[c].a, created_at |-> now])
                        \/ /\ reqs'[c].op = "access"
                           /\ DOMAIN shareLinks' \subseteq DOMAIN shareLinks
                           /\ \A i \in DOMAIN shareLinks' : shareLinks'[i] = shareLinks[i]]_vars

\* C21 witness: link 1 is expired and still in the registry after the file
\* it points to was deleted.
C21_Witness ==
    \E c \in Clients :
        /\ reqs[c].pc = "done" /\ reqs[c].op = "delete" /\ reqs[c].status = 200
        /\ 1 \in DOMAIN shareLinks
        /\ Expired(shareLinks[1], now)
        /\ getSafePath(shareLinks[1].path) \notin DOMAIN fs

\* C22: the checks of a move change nothing and hold nothing: when its call
\* of fs.move runs, the source can be gone or the final path taken, by a
\* request that came in between, and then the move is answered 500 and the
\* tree stays as that request left it. In the same way the fs.remove of a
\* delete can find its target gone; it is answered 200 all the same.
C22_NotSerialized ==
    [][\A c \in Clients :
           Steps(c) =>
               LET s == getSafePath(reqs[c].a)
                   final == FinalDestination(s, getSafePath(reqs[c].b))
               IN  /\ (reqs[c].op = "move" /\ reqs[c].pc # "mv_move") => fs' = fs
                   /\ (/\ reqs[c].op = "move" /\ reqs[c].pc = "mv_move"
                       /\ ~pathExists(fs, s) \/ pathExists(fs, final)) =>
                          /\ reqs'[c].pc = "done"
                          /\ reqs'[c].status = 500
                          /\ fs' = fs
                   /\ (/\ reqs[c].op = "delete" /\ reqs[c].pc = "del_remove"
                       /\ ~pathExists(fs, s)) =>
                          /\ reqs'[c].pc = "done"
                          /\ reqs'[c].status = 200
                          /\ fs' = fs]_vars

\* C22 witness: two moves of x into d passed the test for a free final path;
\* the first has moved x, and the second is about to call fs.move with its
\* source gone and its final path taken.
C22_Witness ==
    \E c, o \in Clients :
        /\ reqs[o].op = "move" /\ reqs[o].pc = "done" /\ reqs[o].status = 200
        /\ reqs[c].op = "move" /\ reqs[c].pc = "mv_move"
        /\ reqs[c].a = reqs[o].a /\ reqs[c].b = reqs[o].b
        /\ ~pathExists(fs, getSafePath(reqs[c].a))
        /\ pathExists(fs, FinalDestination(getSafePath(reqs[c].a), getSafePath(reqs[c].b)))

\* C23: a move with a source and a destination inside the root is answered
\* 404 when the source or the destination is not there, 400 when the
\* destination is not a directory, and 400 when the source is the
\* destination or is already directly in it, each time without a change.
\* After a move answered 200 every entry of the subtree of the source is at
\* the same place below destination/basename(source), nothing is left at the
\* source, and every other entry is as it was.
C23_Move ==
    [][\A c \in Clients :
           (AnsweredNow(c) /\ reqs'[c].op = "move") =>
               LET S == getSafePath(reqs'[c].a)
                   D == getSafePath(reqs'[c].b)
               IN  (reqs'[c].a # <<>> /\ S # Null /\ D # Null) =>
                       LET F == PathJoin(D, PathBasename(S))
                           sub == {q \in DOMAIN fs : Descends(q, S)}
                       IN  /\ (S \notin DOMAIN fs \/ D \notin DOMAIN fs) =>
                                  reqs'[c].status = 404 /\ fs' = fs
                           /\ (S \in DOMAIN fs /\ D \in DOMAIN fs /\ ~fs[D].dir) =>
                                  reqs'[c].status = 400 /\ fs' = fs
                           /\ (S \in DOMAIN fs /\ D \in DOMAIN fs /\ (F = S \/ D = S)) =>
                                  reqs'[c].status = 400 /\ fs' = fs
                           /\ reqs'[c].status = 200 =>
                                  /\ DOMAIN fs' = (DOMAIN fs \ sub) \cup
                                                  {MovedTo(q, S, F) : q \in sub}
                                  /\ \A q \in sub : fs'[MovedTo(q, S, F)] = fs[q]
                                  /\ \A q \in DOMAIN fs \ sub : fs'[q] = fs[q]
                                  /\ \A q \in DOMAIN fs' : ~Descends(q, S)]_vars

\* C23 witness: the directory x/y, with the file x/y/x in it, was moved into
\* the root: it is at y with its file, and x is empty.
C23_Witness ==
    \E c \in Clients :
        /\ reqs[c].pc = "done" /\ reqs[c].op = "move" /\ reqs[c].status = 200
        /\ reqs[c].a = <<"x", "/", "y">> /\ reqs[c].b = <<>>
        /\ Entries(fs) = {<<"/", "r", "/", "x">>, <<"/", "r", "/", "y">>,
                          <<"/", "r", "/", "y", "/", "x">>}
        /\ fs[<<"/", "r", "/", "y">>].dir
        /\ ~fs[<<"/", "r", "/", "y", "/", "x">>].dir

\* C24: in every reachable state getSafePath accepts the path of every entry
\* of the registry, and a lookup that finds its entry, not expired, is never
\* answered at once: it goes on to the existence check of the target and
\* leaves the registry as it is.
C24_StoredAccepted ==
    /\ [](\A i \in DOMAIN shareLinks : getSafePath(shareLinks[i].path) # Null)
    /\ [][\A c \in Clients :
              (/\ Lookup(c)
               /\ reqs'[c].id \in DOMAIN shareLinks
               /\ ~Expired(shareLinks[reqs'[c].id], now)) =>
                  /\ reqs'[c].pc = "sa_exists"
                  /\ getSafePath(reqs'[c].loc) # Null
                  /\ shareLinks' = shareLinks]_vars

\* C24 witness: the link stored with the escaped path %78 was looked up
\* within the window; the lookup resolved it to x in the root and is at the
\* existence check.
C24_Witness ==
    \E c \in Clients :
        /\ reqs[c].op = "access" /\ reqs[c].pc = "sa_exists"
        /\ reqs[c].id \in DOMAIN shareLinks
        /\ shareLinks[reqs[c].id].path = <<"%", "7", "8">>
        /\ reqs[c].loc = <<"%", "7", "8">>
        /\ getSafePath(reqs[c].loc) = <<"/", "r", "/", "x">>

====
